---- MODULE Spec2Model ----
(***************************************************************************)
(* Construction of the struct / enum descriptors of crates/ra_hir/src/adt.rs *)
(* (StructData::new, EnumData::new, VariantData::new), the accessors of     *)
(* VariantData, and the Struct / Enum handles that forward to the database. *)
(*                                                                         *)
(* One construction is modelled step by step: one step per iteration of the *)
(* field iterator (one call of Ty::from_ast_opt), one step per return of    *)
(* VariantData::new.  The resolver either answers with a type or signals    *)
(* cancellation; which of the two is a nondeterministic choice.             *)
(***************************************************************************)
EXTENDS Integers, Sequences, FiniteSets, TLC

VARIABLES def, pc, name, vi, fi, collected, variants, calls, result, prev, db, ret

vars == <<def, pc, name, vi, fi, collected, variants, calls, result, prev, db, ret>>

consVars == <<def, pc, name, vi, fi, collected, variants, calls, result, prev>>

handleVars == <<db, ret>>

(***************************************************************************)
(* Bounds of the explored inputs.                                          *)
(***************************************************************************)
MaxFields == 5

MaxVariants == 2

MaxEnumFields == 2

MaxCachedFields == 1

(***************************************************************************)
(* Option<T> is a sequence of length at most one; Cancelable<T> is a record.*)
(***************************************************************************)
None == <<>>

Some(x) == <<x>>

Ok(v) == [ok |-> TRUE, val |-> v]

Canceled == [ok |-> FALSE]

(***************************************************************************)
(* usize::to_string: the decimal digits of i, most significant first.      *)
(***************************************************************************)
Digit(d) ==
    CASE d = 0 -> "0" [] d = 1 -> "1" [] d = 2 -> "2" [] d = 3 -> "3"
      [] d = 4 -> "4" [] d = 5 -> "5" [] d = 6 -> "6" [] d = 7 -> "7"
      [] d = 8 -> "8" [] d = 9 -> "9"

RECURSIVE to_string(_)
to_string(i) ==
    IF i < 10 THEN Digit(i) ELSE to_string(i \div 10) \o Digit(i % 10)

(***************************************************************************)
(* The syntax the definitions are built from (ra_syntax::ast).             *)
(***************************************************************************)
Idents == {"x"}

DefNames == {"S"}

TypeRefs == {"int"}

OptOf(S) == {None} \cup {Some(s) : s \in S}

PosFieldDefs == [type_ref : OptOf(TypeRefs)]

NamedFieldDefs == [name : OptOf(Idents), type_ref : OptOf(TypeRefs)]

UnitFlavor == [tag |-> "Unit"]

SeqsUpTo(S, maxn) == UNION {[1..n -> S] : n \in 0..maxn}

Flavors(pos, named, maxn) ==
    {UnitFlavor}
      \cup {[tag |-> "Tuple", fields |-> f] : f \in SeqsUpTo(pos, maxn)}
      \cup {[tag |-> "Named", fields |-> f] : f \in SeqsUpTo(named, maxn)}

NumFields(flavor) == IF flavor.tag = "Unit" THEN 0 ELSE Len(flavor.fields)

StructDefs ==
    {[kind |-> "struct", name |-> n, flavor |-> f] :
        n \in OptOf(DefNames), f \in Flavors(PosFieldDefs, NamedFieldDefs, MaxFields)}

(***************************************************************************)
(* Enum variants draw their fields from the well-formed and the fully      *)
(* malformed named field; an enum declares at most MaxVariants variants and *)
(* at most MaxEnumFields fields over all of them.                           *)
(***************************************************************************)
VariantFieldDefs ==
    {[name |-> None, type_ref |-> None], [name |-> Some("x"), type_ref |-> Some("int")]}

EnumVariants ==
    {[name |-> vn, flavor |-> f] :
        vn \in OptOf({"A"}), f \in Flavors(PosFieldDefs, VariantFieldDefs, MaxEnumFields)}

RECURSIVE TotalFields(_, _)
TotalFields(l, k) ==
    IF k = 0 THEN 0 ELSE NumFields(l[k].flavor) + TotalFields(l, k - 1)

NoDef == [kind |-> "none"]

(***************************************************************************)
(* Ty::from_ast_opt: the outcomes of resolving an optional type reference. *)
(***************************************************************************)
TyOf(type_ref) ==
    IF type_ref = None THEN "Unknown"
    ELSE IF type_ref[1] = "int" THEN "Int" ELSE "Bool"

from_ast_opt(type_ref) == {Ok(TyOf(type_ref)), Canceled}

(***************************************************************************)
(* The flavor VariantData::new is currently working on.                    *)
(***************************************************************************)
CurFlavor ==
    IF def.kind = "struct" THEN def.flavor ELSE def.variant_list[1][vi].flavor

unwrap_or_error(optName) == IF optName = None THEN "[error]" ELSE optName[1]

FieldName_one_based(flavor, i, fd) ==
    IF flavor.tag = "Tuple" THEN to_string(i + 1) ELSE unwrap_or_error(fd.name)

FieldName(flavor, i, fd) ==
    IF flavor.tag = "Tuple" THEN to_string(i) ELSE unwrap_or_error(fd.name)

StructField(n, ty) == [name |-> n, ty |-> ty]

VariantDataOf_unit_as_tuple(flavor, fs) ==
    CASE flavor.tag = "Tuple" -> [tag |-> "Tuple", fields |-> fs]
      [] flavor.tag = "Named" -> [tag |-> "Struct", fields |-> fs]
      [] flavor.tag = "Unit" -> [tag |-> "Tuple", fields |-> <<>>]

VariantDataOf(flavor, fs) ==
    CASE flavor.tag = "Tuple" -> [tag |-> "Tuple", fields |-> fs]
      [] flavor.tag = "Named" -> [tag |-> "Struct", fields |-> fs]
      [] flavor.tag = "Unit" -> [tag |-> "Unit"]

(***************************************************************************)
(* Accessors of VariantData.                                               *)
(***************************************************************************)
fields(vd) == IF vd.tag \in {"Struct", "Tuple"} THEN vd.fields ELSE <<>>

find_last(fs, i, field_name) ==
    LET M == {j \in i..Len(fs) : fs[j].name = field_name}
    IN  IF M = {} THEN None ELSE Some(fs[CHOOSE j \in M : \A m \in M : m <= j])

RECURSIVE find(_, _, _)
find(fs, i, field_name) ==
    IF i > Len(fs) THEN None
    ELSE IF fs[i].name = field_name THEN Some(fs[i])
    ELSE find(fs, i + 1, field_name)

get_field_ty(vd, field_name) ==
    LET f == find(fields(vd), 1, field_name)
    IN  IF f = None THEN None ELSE Some(f[1].ty)

is_struct(vd) == IF vd.tag = "Struct" THEN TRUE ELSE FALSE

is_tuple(vd) == IF vd.tag = "Tuple" THEN TRUE ELSE FALSE

is_unit(vd) == IF vd.tag = "Unit" THEN TRUE ELSE FALSE

(***************************************************************************)
(* One iteration of the field iterator: the closure builds the field from  *)
(* the resolver's outcome, `?` turning a cancellation into the closure's   *)
(* result; collect::<Cancelable<_>> keeps the fields until the first       *)
(* cancellation and then yields that cancellation.                         *)
(***************************************************************************)
field_closure_swallow(flavor, i, fd, out) ==
    IF out.ok
    THEN Ok(StructField(FieldName(flavor, i, fd), out.val))
    ELSE Ok(StructField(FieldName(flavor, i, fd), "Unknown"))

field_closure_strict(flavor, i, fd, out) ==
    IF out.ok /\ fd.type_ref # None
    THEN Ok(StructField(FieldName(flavor, i, fd), out.val))
    ELSE Canceled

field_closure(flavor, i, fd, out) ==
    IF out.ok THEN Ok(StructField(FieldName(flavor, i, fd), out.val)) ELSE Canceled

collect_skip(acc, item) == IF item.ok THEN Ok(Append(acc, item.val)) ELSE Ok(acc)

collect(acc, item) == IF item.ok THEN Ok(Append(acc, item.val)) ELSE Canceled

resolver_call_skip_absent(log, entry) ==
    IF entry.type_ref = None THEN log ELSE Append(log, entry)

resolver_call(log, entry) == Append(log, entry)

push_variant_dedup(vs, pair) ==
    IF \E j \in 1..Len(vs) : vs[j][1] = pair[1] THEN vs ELSE Append(vs, pair)

push_variant(vs, pair) == Append(vs, pair)

(***************************************************************************)
(* The construction, step by step.                                         *)
(***************************************************************************)
Carry == IF pc = "done" /\ result[1].ok THEN Some(result[1].val) ELSE prev

StructData_new_stale ==
    /\ def.kind = "struct"
    /\ pc \in {"idle", "done"}
    /\ prev' = Carry
    /\ name' = def.name
    /\ pc' = "flavor"
    /\ vi' = 0
    /\ fi' = 0
    /\ variants' = <<>>
    /\ calls' = <<>>
    /\ result' = None
    /\ ret' = None
    /\ UNCHANGED <<def, collected, db>>

StructData_new ==
    /\ def.kind = "struct"
    /\ pc \in {"idle", "done"}
    /\ prev' = Carry
    /\ name' = def.name
    /\ pc' = "flavor"
    /\ vi' = 0
    /\ fi' = 0
    /\ collected' = <<>>
    /\ variants' = <<>>
    /\ calls' = <<>>
    /\ result' = None
    /\ ret' = None
    /\ UNCHANGED <<def, db>>

EnumData_new ==
    /\ def.kind = "enum"
    /\ pc \in {"idle", "done"}
    /\ prev' = Carry
    /\ name' = def.name
    /\ fi' = 0
    /\ collected' = <<>>
    /\ variants' = <<>>
    /\ calls' = <<>>
    /\ IF def.variant_list # None /\ Len(def.variant_list[1]) > 0
       THEN /\ pc' = "flavor"
            /\ vi' = 1
            /\ result' = None
       ELSE /\ pc' = "done"
            /\ vi' = 0
            /\ result' = Some(Ok([name |-> def.name, variants |-> <<>>]))
    /\ ret' = None
    /\ UNCHANGED <<def, db>>

VariantData_new_field ==
    /\ pc = "flavor"
    /\ fi < NumFields(CurFlavor)
    /\ LET fd == CurFlavor.fields[fi + 1]
       IN  \E out \in from_ast_opt(fd.type_ref) :
             LET item == field_closure(CurFlavor, fi, fd, out)
                 r == collect(collected, item)
             IN  /\ calls' = resolver_call(calls,
                        [variant |-> vi, index |-> fi, type_ref |-> fd.type_ref, out |-> out])
                 /\ IF r.ok
                    THEN /\ collected' = r.val
                         /\ fi' = fi + 1
                         /\ UNCHANGED <<pc, result>>
                    ELSE /\ pc' = "done"
                         /\ result' = Some(Canceled)
                         /\ UNCHANGED <<collected, fi>>
    /\ UNCHANGED <<def, name, vi, variants, prev, db, ret>>

StructData_new_return ==
    /\ pc = "flavor"
    /\ def.kind = "struct"
    /\ fi = NumFields(CurFlavor)
    /\ pc' = "done"
    /\ result' = Some(Ok([name |-> name,
                          variant_data |-> VariantDataOf(CurFlavor, collected)]))
    /\ UNCHANGED <<def, name, vi, fi, collected, variants, calls, prev, db, ret>>

EnumData_new_variant ==
    /\ pc = "flavor"
    /\ def.kind = "enum"
    /\ fi = NumFields(CurFlavor)
    /\ LET v == def.variant_list[1][vi]
           vs == push_variant(variants,
                    <<unwrap_or_error(v.name), VariantDataOf(CurFlavor, collected)>>)
       IN  /\ variants' = vs
           /\ IF vi < Len(def.variant_list[1])
              THEN /\ vi' = vi + 1
                   /\ fi' = 0
                   /\ collected' = <<>>
                   /\ UNCHANGED <<pc, result>>
              ELSE /\ pc' = "done"
                   /\ result' = Some(Ok([name |-> name, variants |-> vs]))
                   /\ UNCHANGED <<vi, fi, collected>>
    /\ UNCHANGED <<def, name, calls, prev, db, ret>>

(***************************************************************************)
(* Reads of a built struct descriptor: StructData::variant_data and the    *)
(* accessors of VariantData applied to the shape it returns.  The accessors *)
(* are pure, so one read is recorded per construction.                     *)
(***************************************************************************)
LookupNames == {"x", "y", "[error]", "0", "1"}

StructData_name(sd) == sd.name

StructData_variant_data(sd) == sd.variant_data

BuiltStruct ==
    /\ def.kind = "struct"
    /\ pc = "done"
    /\ result # None
    /\ result[1].ok
    /\ ret = None

call_get_field_ty ==
    /\ BuiltStruct
    /\ \E n \in LookupNames :
         ret' = Some([op |-> "get_field_ty", arg |-> n,
                      out |-> get_field_ty(StructData_variant_data(result[1].val), n)])
    /\ UNCHANGED <<consVars, db>>

call_fields ==
    /\ BuiltStruct
    /\ ret' = Some([op |-> "fields",
                    out |-> fields(StructData_variant_data(result[1].val))])
    /\ UNCHANGED <<consVars, db>>

call_is ==
    /\ BuiltStruct
    /\ LET vd == StructData_variant_data(result[1].val)
       IN  ret' = Some([op |-> "is",
                        out |-> [is_struct |-> is_struct(vd),
                                 is_tuple |-> is_tuple(vd),
                                 is_unit |-> is_unit(vd)]])
    /\ UNCHANGED <<consVars, db>>

InitDef ==
    \/ def \in StructDefs
    \/ \E n \in OptOf(DefNames) :
          \/ def = [kind |-> "enum", name |-> n, variant_list |-> None]
          \/ \E k \in 0..MaxVariants : \E l \in [1..k -> EnumVariants] :
                /\ TotalFields(l, k) <= MaxEnumFields
                /\ def = [kind |-> "enum", name |-> n, variant_list |-> Some(l)]

Init ==
    /\ InitDef
    /\ pc = "idle"
    /\ name = None
    /\ vi = 0
    /\ fi = 0
    /\ collected = <<>>
    /\ variants = <<>>
    /\ calls = <<>>
    /\ result = None
    /\ prev = None
    /\ db = <<>>
    /\ ret = None

Next ==
    \/ StructData_new
    \/ EnumData_new
    \/ VariantData_new_field
    \/ StructData_new_return
    \/ EnumData_new_variant
    \/ call_get_field_ty
    \/ call_fields
    \/ call_is

Spec == Init /\ [][Next]_vars

(***************************************************************************)
(* The handles.  The database answers struct_data / enum_data for an       *)
(* identifier with a shared descriptor or with a cancellation; the table   *)
(* db holds the answer it gives for each identifier.                       *)
(***************************************************************************)
StructIds == {1, 2}

EnumIds == {3, 4}

Tys == {"Unknown", "Int"}

CachedNamedFields == {StructField(n, t) : n \in {"x", "[error]"}, t \in Tys}

CachedTupleFields(n) ==
    {[i \in 1..n |-> StructField(to_string(i - 1), t[i])] : t \in [1..n -> Tys]}

CachedVariantData ==
    {[tag |-> "Unit"]}
      \cup {[tag |-> "Struct", fields |-> f] :
              f \in UNION {[1..n -> CachedNamedFields] : n \in 0..MaxCachedFields}}
      \cup {[tag |-> "Tuple", fields |-> f] :
              f \in UNION {CachedTupleFields(n) : n \in 0..MaxCachedFields}}

StructOutcomes ==
    {Canceled} \cup
    {Ok([name |-> n, variant_data |-> vd]) : n \in OptOf(DefNames), vd \in CachedVariantData}

EnumOutcomes ==
    {Canceled} \cup
    {Ok([name |-> n, variants |-> vs]) :
        n \in OptOf(DefNames), vs \in {<<>>, << <<"A", [tag |-> "Unit"]>> >>}}

struct_data(def_id) == db[def_id]

enum_data(def_id) == db[def_id]

Struct_new(def_id) == [def_id |-> def_id]

Enum_new(def_id) == [def_id |-> def_id]

Struct_variant_data(self) ==
    LET q == struct_data(self.def_id)
    IN  IF q.ok THEN Ok(q.val.variant_data) ELSE Canceled

Struct_struct_data(self) ==
    LET q == struct_data(self.def_id)
    IN  IF q.ok THEN Ok(q.val) ELSE Canceled

Struct_name_swallow(self) ==
    LET q == struct_data(self.def_id)
    IN  IF q.ok THEN Ok(q.val.name) ELSE Ok(None)

Struct_name(self) ==
    LET q == struct_data(self.def_id)
    IN  IF q.ok THEN Ok(q.val.name) ELSE Canceled

Enum_name(self) ==
    LET q == enum_data(self.def_id)
    IN  IF q.ok THEN Ok(q.val.name) ELSE Canceled

call_Struct_variant_data ==
    /\ \E id \in StructIds :
         ret' = Some([op |-> "variant_data", def_id |-> id,
                      out |-> Struct_variant_data(Struct_new(id))])
    /\ UNCHANGED <<consVars, db>>

call_Struct_struct_data ==
    /\ \E id \in StructIds :
         ret' = Some([op |-> "struct_data", def_id |-> id,
                      out |-> Struct_struct_data(Struct_new(id))])
    /\ UNCHANGED <<consVars, db>>

call_Struct_name ==
    /\ \E id \in StructIds :
         ret' = Some([op |-> "struct_name", def_id |-> id,
                      out |-> Struct_name(Struct_new(id))])
    /\ UNCHANGED <<consVars, db>>

call_Enum_name ==
    /\ \E id \in EnumIds :
         ret' = Some([op |-> "enum_name", def_id |-> id,
                      out |-> Enum_name(Enum_new(id))])
    /\ UNCHANGED <<consVars, db>>

InitHandles ==
    /\ def = NoDef
    /\ pc = "idle"
    /\ name = None
    /\ vi = 0
    /\ fi = 0
    /\ collected = <<>>
    /\ variants = <<>>
    /\ calls = <<>>
    /\ result = None
    /\ prev = None
    /\ \E s \in [StructIds -> StructOutcomes], e \in [EnumIds -> EnumOutcomes] :
         db = [id \in StructIds \cup EnumIds |-> IF id \in StructIds THEN s[id] ELSE e[id]]
    /\ ret = None

NextHandles ==
    \/ call_Struct_variant_data
    \/ call_Struct_struct_data
    \/ call_Struct_name
    \/ call_Enum_name

SpecHandles == InitHandles /\ [][NextHandles]_vars

(***************************************************************************)
(* What the claims speak about: the declared syntax, the calls made to the *)
(* resolver and the descriptor a construction returned.                    *)
(***************************************************************************)
Done == pc = "done" /\ result # None

Built == Done /\ result[1].ok

CanceledCalls == {j \in 1..Len(calls) : ~calls[j].out.ok}

FlavorIdx ==
    IF def.kind = "struct" THEN {0}
    ELSE IF def.variant_list = None THEN {}
    ELSE 1..Len(def.variant_list[1])

DeclFlavor(k) ==
    IF def.kind = "struct" THEN def.flavor ELSE def.variant_list[1][k].flavor

BuiltShape(k) ==
    IF def.kind = "struct"
    THEN result[1].val.variant_data
    ELSE result[1].val.variants[k][2]

ShapesBuilt ==
    def.kind = "enum" =>
        Len(result[1].val.variants) =
            (IF def.variant_list = None THEN 0 ELSE Len(def.variant_list[1]))

CallsOf(k) == SelectSeq(calls, LAMBDA c : c.variant = k)

Sentinel == "[error]"

DeclName(optName) == IF optName = None THEN Sentinel ELSE optName[1]

Decimal == <<"0", "1", "2", "3", "4", "5", "6", "7", "8", "9">>

DeclCalls(k) ==
    [i \in 1..NumFields(DeclFlavor(k)) |->
        [variant |-> k, index |-> i - 1, type_ref |-> DeclFlavor(k).fields[i].type_ref]]

RECURSIVE DeclCallsUpTo(_)
DeclCallsUpTo(k) == IF k = 0 THEN <<>> ELSE DeclCallsUpTo(k - 1) \o DeclCalls(k)

AllDeclCalls ==
    IF def.kind = "struct" THEN DeclCalls(0)
    ELSE IF def.variant_list = None THEN <<>>
    ELSE DeclCallsUpTo(Len(def.variant_list[1]))

CallSite(c) == [variant |-> c.variant, index |-> c.index, type_ref |-> c.type_ref]

(***************************************************************************)
(* C1.  Cancellation atomicity: once the resolver has answered a field of  *)
(* the definition with a cancellation, the construction is over and its    *)
(* outcome is the cancellation; no descriptor is returned, in particular   *)
(* none holding the fields resolved before that one.                       *)
(***************************************************************************)
C1_CancellationAtomicity ==
    CanceledCalls # {} => pc = "done" /\ result = Some(Canceled)

C1_Witness ==
    /\ def.kind = "struct"
    /\ NumFields(def.flavor) = 5
    /\ Len(calls) = 3
    /\ ~calls[3].out.ok
    /\ Len(collected) = 2
    /\ result = Some(Canceled)

(***************************************************************************)
(* C2.  After the resolver signals cancellation the construction makes no  *)
(* further resolver call: a cancelled call is the last call of the         *)
(* construction, whatever fields and variants are declared after it.       *)
(***************************************************************************)
C2_NoResolutionAfterCancel == \A j \in CanceledCalls : j = Len(calls)

C2_Witness ==
    /\ def.kind = "enum"
    /\ def.variant_list # None
    /\ Len(def.variant_list[1]) = 2
    /\ NumFields(def.variant_list[1][1].flavor) = 1
    /\ NumFields(def.variant_list[1][2].flavor) = 1
    /\ pc = "done"
    /\ Len(calls) = 1
    /\ ~calls[1].out.ok

(***************************************************************************)
(* C3.  Malformed source never fails: a finished construction none of      *)
(* whose resolver calls was cancelled returned a descriptor, in which a    *)
(* missing field or variant name is the sentinel, a missing type reference *)
(* is the resolver's unknown type, a missing definition name is no name    *)
(* and an absent variant list is the empty list; and an outcome that is    *)
(* no descriptor is the cancellation a resolver call raised.               *)
(***************************************************************************)
C3_Degraded(k) ==
    LET fl == DeclFlavor(k)
        fs == fields(BuiltShape(k))
    IN  /\ Len(fs) = NumFields(fl)
        /\ \A i \in 1..NumFields(fl) :
             /\ (fl.tag = "Named" /\ fl.fields[i].name = None) => fs[i].name = Sentinel
             /\ fl.fields[i].type_ref = None => fs[i].ty = "Unknown"

C3_MalformedNeverFails ==
    Done =>
      /\ CanceledCalls = {} =>
           /\ result[1].ok
           /\ result[1].val.name = def.name
           /\ ShapesBuilt
           /\ \A k \in FlavorIdx :
                /\ C3_Degraded(k)
                /\ (def.kind = "enum" /\ def.variant_list[1][k].name = None) =>
                       result[1].val.variants[k][1] = Sentinel
      /\ ~result[1].ok => result[1] = Canceled /\ CanceledCalls # {}

C3_Witness ==
    /\ Built
    /\ def.kind = "enum"
    /\ def.name = None
    /\ def.variant_list # None
    /\ Len(def.variant_list[1]) = 1
    /\ def.variant_list[1][1].name = None
    /\ def.variant_list[1][1].flavor.tag = "Named"
    /\ NumFields(def.variant_list[1][1].flavor) = 1
    /\ def.variant_list[1][1].flavor.fields[1] = [name |-> None, type_ref |-> None]
    /\ result[1].val =
         [name |-> None,
          variants |-> << <<Sentinel,
                            [tag |-> "Struct",
                             fields |-> <<[name |-> Sentinel, ty |-> "Unknown"]>>]>> >>]

(***************************************************************************)
(* C4.  A positional flavor with n declared fields, built without          *)
(* cancellation, yields the Tuple shape with n fields; the i-th (from 0)   *)
(* is named by the decimal string of i and typed by what the resolver      *)
(* answered for the i-th declared type reference.                          *)
(***************************************************************************)
C4_TupleFields ==
    Built /\ ShapesBuilt =>
      \A k \in FlavorIdx :
        DeclFlavor(k).tag = "Tuple" =>
          LET n == NumFields(DeclFlavor(k))
              vd == BuiltShape(k)
              cs == CallsOf(k)
          IN  /\ vd.tag = "Tuple"
              /\ Len(vd.fields) = n
              /\ Len(cs) = n
              /\ \A i \in 0..(n - 1) :
                   /\ vd.fields[i + 1].name = Decimal[i + 1]
                   /\ cs[i + 1].index = i
                   /\ cs[i + 1].type_ref = DeclFlavor(k).fields[i + 1].type_ref
                   /\ vd.fields[i + 1].ty = cs[i + 1].out.val

C4_Witness ==
    /\ Built
    /\ def.kind = "struct"
    /\ def.flavor.tag = "Tuple"
    /\ NumFields(def.flavor) = 3
    /\ def.flavor.fields[2].type_ref = None
    /\ result[1].val.variant_data =
         [tag |-> "Tuple",
          fields |-> <<[name |-> "0", ty |-> "Int"], [name |-> "1", ty |-> "Unknown"],
                       [name |-> "2", ty |-> "Int"]>>]

(***************************************************************************)
(* C5.  A named flavor yields the Struct shape whose fields carry, in      *)
(* declaration order, the declared identifier or the sentinel when it is   *)
(* missing; get_field_ty(name) returns the type of the first declared      *)
(* field of that name, also when several share it, and none exactly when   *)
(* no field has that name.                                                 *)
(***************************************************************************)
C5_FirstMatch(n) ==
    LET fl == def.flavor
        M == {i \in 1..NumFields(fl) : DeclName(fl.fields[i].name) = n}
    IN  IF M = {} THEN None
        ELSE Some(calls[CHOOSE i \in M : \A m \in M : i <= m].out.val)

C5_NamedFieldsAndLookup ==
    /\ Built /\ ShapesBuilt =>
         \A k \in FlavorIdx :
           DeclFlavor(k).tag = "Named" =>
             /\ BuiltShape(k).tag = "Struct"
             /\ Len(BuiltShape(k).fields) = NumFields(DeclFlavor(k))
             /\ \A i \in 1..NumFields(DeclFlavor(k)) :
                  BuiltShape(k).fields[i].name = DeclName(DeclFlavor(k).fields[i].name)
    /\ (ret # None /\ ret[1].op = "get_field_ty" /\ def.flavor.tag = "Named") =>
         ret[1].out = C5_FirstMatch(ret[1].arg)

C5_Witness ==
    /\ ret # None
    /\ ret[1].op = "get_field_ty"
    /\ ret[1].arg = Sentinel
    /\ def.flavor.tag = "Named"
    /\ NumFields(def.flavor) = 3
    /\ def.flavor.fields[1] = [name |-> Some("x"), type_ref |-> Some("int")]
    /\ def.flavor.fields[2] = [name |-> None, type_ref |-> None]
    /\ def.flavor.fields[3] = [name |-> None, type_ref |-> Some("int")]
    /\ ret[1].out = Some("Unknown")

(***************************************************************************)
(* C6.  An enum with a variant list, built without cancellation, holds one *)
(* (name, shape) pair per declared variant, in declaration order: the name *)
(* is the declared identifier or the sentinel, the shape is built from the *)
(* variant's own fields; equal names stay separate entries.  Without a     *)
(* variant list the list of pairs is empty.                                *)
(***************************************************************************)
C6_ShapeOf(k, vd) ==
    LET fl == DeclFlavor(k)
        cs == CallsOf(k)
    IN  /\ vd.tag = (CASE fl.tag = "Tuple" -> "Tuple"
                       [] fl.tag = "Named" -> "Struct"
                       [] fl.tag = "Unit" -> "Unit")
        /\ Len(fields(vd)) = NumFields(fl)
        /\ Len(cs) = NumFields(fl)
        /\ \A i \in 1..NumFields(fl) :
             /\ fields(vd)[i].name =
                  (IF fl.tag = "Tuple" THEN Decimal[i] ELSE DeclName(fl.fields[i].name))
             /\ cs[i].type_ref = fl.fields[i].type_ref
             /\ fields(vd)[i].ty = cs[i].out.val

C6_EnumVariants ==
    (Built /\ def.kind = "enum") =>
      LET vs == result[1].val.variants
      IN  IF def.variant_list = None
          THEN vs = <<>>
          ELSE /\ Len(vs) = Len(def.variant_list[1])
               /\ \A k \in 1..Len(vs) :
                    /\ vs[k][1] = DeclName(def.variant_list[1][k].name)
                    /\ C6_ShapeOf(k, vs[k][2])

C6_Witness ==
    /\ Built
    /\ def.kind = "enum"
    /\ def.variant_list # None
    /\ Len(def.variant_list[1]) = 2
    /\ def.variant_list[1][1].name = None
    /\ def.variant_list[1][2].name = None
    /\ def.variant_list[1][1].flavor.tag = "Tuple"
    /\ NumFields(def.variant_list[1][1].flavor) = 1
    /\ def.variant_list[1][2].flavor.tag = "Named"
    /\ NumFields(def.variant_list[1][2].flavor) = 1
    /\ Len(result[1].val.variants) = 2
    /\ result[1].val.variants[1][1] = Sentinel
    /\ result[1].val.variants[2][1] = Sentinel
    /\ result[1].val.variants[1][2].tag = "Tuple"
    /\ result[1].val.variants[2][2].tag = "Struct"

(***************************************************************************)
(* C7.  A no-fields flavor yields the Unit shape; on it fields() is empty, *)
(* is_unit holds, is_struct and is_tuple do not, and get_field_ty misses   *)
(* for every name; and on every shape exactly one of is_struct, is_tuple,  *)
(* is_unit holds.                                                          *)
(***************************************************************************)
C7_UnitShape ==
    /\ Built /\ ShapesBuilt =>
         \A k \in FlavorIdx :
           DeclFlavor(k).tag = "Unit" => BuiltShape(k) = [tag |-> "Unit"]
    /\ (ret # None /\ def.flavor.tag = "Unit") =>
         /\ ret[1].op = "fields" => ret[1].out = <<>>
         /\ ret[1].op = "get_field_ty" => ret[1].out = None
         /\ ret[1].op = "is" =>
              ret[1].out = [is_struct |-> FALSE, is_tuple |-> FALSE, is_unit |-> TRUE]
    /\ (ret # None /\ ret[1].op = "is") =>
         Cardinality({t \in {"is_struct", "is_tuple", "is_unit"} : ret[1].out[t]}) = 1

C7_Witness ==
    /\ ret # None
    /\ def.flavor.tag = "Unit"
    /\ ret[1].op = "is"
    /\ ret[1].out.is_unit

(***************************************************************************)
(* C8.  Idempotence: a construction that returns a descriptor returns one  *)
(* equal to the descriptor an earlier construction of the same definition  *)
(* returned.                                                               *)
(***************************************************************************)
C8_Idempotent == (Built /\ prev # None) => result[1].val = prev[1]

C8_Witness ==
    /\ Built
    /\ prev # None
    /\ def.kind = "struct"
    /\ def.flavor.tag = "Named"
    /\ NumFields(def.flavor) = 2
    /\ Len(fields(result[1].val.variant_data)) = 2

(***************************************************************************)
(* C9.  A handle accessor returns the cancellation exactly when the        *)
(* database's query for the handle's identifier does, and otherwise the    *)
(* name, the shape or the whole of the descriptor that query returned.     *)
(***************************************************************************)
C9_Component(op, d) ==
    CASE op = "struct_name" -> d.name
      [] op = "enum_name" -> d.name
      [] op = "variant_data" -> d.variant_data
      [] op = "struct_data" -> d

C9_HandlesForward ==
    ret # None =>
      LET r == ret[1]
          q == db[r.def_id]
      IN  /\ (r.out = Canceled) <=> (q = Canceled)
          /\ q.ok => r.out = Ok(C9_Component(r.op, q.val))

C9_Witness ==
    /\ ret # None
    /\ ret[1].op = "struct_name"
    /\ ret[1].def_id = 2
    /\ db[2] = Canceled
    /\ db[1] # Canceled
    /\ ret[1].out = Canceled

(***************************************************************************)
(* C10.  As stated: a finished construction has called the resolver once   *)
(* per declared field, so its calls are as many as the declared fields.    *)
(***************************************************************************)
C10_OncePerDeclaredField == Done => Len(calls) = Len(AllDeclCalls)

(***************************************************************************)
(* C10, amended.  The calls of a construction are, in order, those for the *)
(* declared fields in declaration order (variant by variant, field by      *)
(* field), none twice and none for a no-fields flavor; a construction that *)
(* returns a descriptor has made the call for every declared field, one    *)
(* that is cancelled has made them up to the cancelled one.                *)
(***************************************************************************)
C10_CallsFollowDeclaration ==
    /\ Len(calls) <= Len(AllDeclCalls)
    /\ \A j \in 1..Len(calls) : CallSite(calls[j]) = AllDeclCalls[j]
    /\ Built => Len(calls) = Len(AllDeclCalls)
    /\ (Done /\ ~result[1].ok) => CanceledCalls = {Len(calls)}

C10_Witness ==
    /\ Built
    /\ def.kind = "enum"
    /\ def.variant_list # None
    /\ Len(def.variant_list[1]) = 2
    /\ NumFields(def.variant_list[1][1].flavor) = 1
    /\ NumFields(def.variant_list[1][2].flavor) = 1
    /\ def.variant_list[1][1].flavor.fields[1].type_ref = None
    /\ Len(calls) = 2
    /\ calls[2].variant = 2

====
